---- MODULE Spec2Model ----
(***************************************************************************)
(* A model of cryocare/internals/CryoCAREDataModule.py: the data module's  *)
(* setup (split computation, construction of the training and validation   *)
(* datasets with their coordinate sampling and normalization statistics),  *)
(* save, load, __getitem__ and close.                                      *)
(*                                                                         *)
(* Python indices are 0-based, TLA+ sequences 1-based: sample_shape[0] of  *)
(* the source is sample_shape[1] here, shape[tilt_axis_index] is           *)
(* shape[tilt_axis_index + 1].  Coordinates, windows and slice bounds keep *)
(* the source's 0-based values.                                            *)
(*                                                                         *)
(* validation_fraction is a dyadic rational vf / VFDen (exact in binary    *)
(* floating point, so int(a * (1 - f)) is the integer division below).     *)
(* mean and std are kept as the list of raw patches they were computed     *)
(* from; the arithmetic of np.mean / np.std is not modelled.               *)
(***************************************************************************)
EXTENDS Integers, Sequences, FiniteSets, TLC

\* Bounds of the model.
MaxExtent == 9      \* largest in-plane extent tried on the split alone
MaxLength == 2      \* largest n_tomos * n_samples_per_tomo handed to setup
MaxNorm == 2        \* largest n_normalization_samples
VFBits == 2         \* validation_fraction ranges over k / 2^VFBits

VFDen == 2 ^ VFBits

\* The volumes and footprints setup is run on, as <<in-plane shape, in-plane
\* sample_shape>>: one that fails the size assertions, the smallest that
\* passes them, and footprints whose two in-plane extents differ by 0 to 2.
Geometries ==
    { << <<2, 3>>, <<1, 1>> >>,
      << <<3, 3>>, <<1, 1>> >>,
      << <<4, 3>>, <<1, 1>> >>,
      << <<3, 5>>, <<1, 2>> >>,
      << <<5, 3>>, <<2, 1>> >>,
      << <<4, 7>>, <<1, 3>> >> }

\* The extents along the third axis: of the volumes, and of sample_shape.
Depths == {1, 2}

FootprintDepths == {1, 2}

\* Python's None where a string is expected (an exception name, tilt_axis),
\* where a tuple is (a mask path, mean, std) and where a dataset is.
None == "None"

NoValue == << >>

NoDataset == [owner |-> None]

Min(a, b) == IF a < b THEN a ELSE b

Max(a, b) == IF a > b THEN a ELSE b

VARIABLES
    args,                     \* the arguments of setup
    pc,                       \* position of the caller
    err,                      \* the exception that ended setup or load, or None
    train_extraction_shapes,  \* setup's local list
    val_extraction_shapes,    \* setup's local list
    train_dataset,            \* CryoCARE_DataModule.train_dataset
    val_dataset,              \* CryoCARE_DataModule.val_dataset
    norm_trace,               \* the indices compute_mean_std handed to __getitem__
    files,                    \* train_data.npz / val_data.npz, or None
    loaded,                   \* the data module that called load
    handles,                  \* the open mrcfile memory maps
    last_item                 \* what the last __getitem__ call returned

vars == <<args, pc, err, train_extraction_shapes, val_extraction_shapes,
          train_dataset, val_dataset, norm_trace, files, loaded,
          handles, last_item>>

----------------------------------------------------------------------------
\* Python semantics the code relies on.

\* int(): truncation of the non-negative rational num / den.
IntTrunc(num, den) == num \div den

\* ["Y", "X"].index(tilt_axis)
TiltAxisIndex(tilt_axis) == IF tilt_axis = "Y" THEN 0 ELSE 1

\* One bound of slice(start, stop) applied to an axis of length n: a negative
\* bound counts from the end, and the result is clipped to [0, n].
SliceBound(i, n) == IF i < 0 THEN Max(i + n, 0) ELSE Min(i, n)

\* The indices a[start:stop] selects on an axis of length n.
SliceRange(start, stop, n) == SliceBound(start, n) .. (SliceBound(stop, n) - 1)

----------------------------------------------------------------------------
\* CryoCARE_DataModule.__compute_extraction_shapes__

\* Lines 264-265 (and 131-132): both in-plane extents exceed twice the footprint.
SizeAssertions(shape, sample_shape) ==
    /\ shape[1] > 2 * sample_shape[1]
    /\ shape[2] > 2 * sample_shape[2]

\* The split point without the clamp of lines 268-269.
ValCutOffUnclamped(extent, s, vf) == IntTrunc(extent * (VFDen - vf), VFDen) - 1

\* Lines 267-269: the split point with its clamp.
ValCutOff(extent, s, vf) ==
    LET val_cut_off == IntTrunc(extent * (VFDen - vf), VFDen) - 1
    IN  IF (extent - val_cut_off < s) \/ (val_cut_off < s)
        THEN extent - s - 1
        ELSE val_cut_off

\* Lines 271-276: <<extraction_shape_train, extraction_shape_val>>, each
\* <<<<y0, y1>>, <<x0, x1>>>>.
ComputeExtractionShapes(shape, tilt_axis_index, sample_shape, vf) ==
    LET k == tilt_axis_index + 1
        val_cut_off == ValCutOff(shape[k], sample_shape[k], vf)
        full == <<<<0, shape[1]>>, <<0, shape[2]>>>>
    IN  << [full EXCEPT ![k] = <<0, val_cut_off>>],
           [full EXCEPT ![k] = <<val_cut_off, shape[k]>>] >>

----------------------------------------------------------------------------
\* The volumes.  Every pair has the same shape; an odd and an even file of a
\* pair differ in content only.  The mask file <<t>> has t valid leading rows:
\* its voxel (y, x, z) is true iff y < t.

Paths(kind, n_tomos) == [i \in 1..n_tomos |-> <<kind, i>>]

\* Lines 123-126: the mask array of one volume.
MaskAt(mask_path, y, x, z) ==
    IF mask_path = NoValue THEN TRUE ELSE y < mask_path[1]

----------------------------------------------------------------------------
\* CryoCARE_Dataset.create_random_coords

\* Lines 149-155: the voxels of mask[slices] that are true, moved back by the
\* slices' starts.  y and x are the two rows of an extraction shape.
ValidInds(y, x, mask_path, sample_shape, shape) ==
    LET rows == SliceRange(y[1], y[2] - sample_shape[2], shape[1])
        cols == SliceRange(x[1], x[2] - sample_shape[1], shape[2])
        row0 == SliceBound(y[1], shape[1])
        col0 == SliceBound(x[1], shape[2])
    IN  { <<(v[1] - row0) + y[1], (v[2] - col0) + x[1], v[3]>> :
            v \in { w \in rows \X cols \X (0 .. shape[3] - 1) :
                      MaskAt(mask_path, w[1], w[2], w[3]) } }

\* Line 157: np.random.choice raises ValueError for an empty population
\* unless no sample is asked for.
SamplingRaises(y, x, mask_path, n_samples, sample_shape, shape) ==
    /\ ValidInds(y, x, mask_path, sample_shape, shape) = {}
    /\ n_samples > 0

\* Lines 157-164: every array np.random.choice can lead to.  Without
\* replacement no voxel of valid_inds is drawn twice, so an anchor (y, x)
\* occurs at most as often as valid_inds holds voxels above it.
CreateRandomCoords(y, x, mask_path, n_samples, sample_shape, shape) ==
    LET valid_inds == ValidInds(y, x, mask_path, sample_shape, shape)
        anchors == { <<v[1], v[2]>> : v \in valid_inds }
        replace == Cardinality(valid_inds) < n_samples
        voxels == [c \in anchors |->
                     Cardinality({ v \in valid_inds : <<v[1], v[2]>> = c })]
        Drawn(f, c) == Cardinality({ i \in 1..n_samples : f[i] = c })
    IN  IF replace
        THEN [1..n_samples -> anchors]
        ELSE { f \in [1..n_samples -> anchors] :
                 \A i \in 1..n_samples : Drawn(f, f[i]) <= voxels[f[i]] }

----------------------------------------------------------------------------
\* CryoCARE_Dataset.__getitem__ and compute_mean_std

\* Line 186: the exception of the index arithmetic and of coords[tomo_index],
\* or None.
GetItemError(idx, n_samples_per_tomo, n_tomos) ==
    IF n_samples_per_tomo = 0 THEN "ZeroDivisionError"
    ELSE IF idx \div n_samples_per_tomo >= n_tomos THEN "IndexError"
    ELSE None

\* Lines 186-187: the coordinate slot of a global index.
CoordOf(coords, idx, n_samples_per_tomo) ==
    coords[(idx \div n_samples_per_tomo) + 1][(idx % n_samples_per_tomo) + 1]

\* Lines 189-194: the shape of each returned patch: the two slices (clipped
\* to the volume as numpy clips them), the untouched third axis, np.newaxis.
PatchShape(coord, sample_shape, shape) ==
    << Cardinality(SliceRange(coord[1], coord[1] + sample_shape[1], shape[1])),
       Cardinality(SliceRange(coord[2], coord[2] + sample_shape[2], shape[2])),
       shape[3],
       1 >>

\* Lines 99-101: the indices compute_mean_std hands to __getitem__: all of
\* 0 .. n_samples - 1, or those up to the first one that raises.
NormIndices(n_samples, n_samples_per_tomo, n_tomos) ==
    LET bad == { i \in 0 .. n_samples - 1 :
                   GetItemError(i, n_samples_per_tomo, n_tomos) # None }
        last == IF bad = {} THEN n_samples - 1
                ELSE CHOOSE i \in bad : \A j \in bad : i <= j
    IN  [k \in 1 .. last + 1 |-> k - 1]

\* Lines 96-105: the statistics of one run of compute_mean_std.  swaps[k] is
\* augment's coin for the k-th patch (line 177): a swapped pair puts the odd
\* patch first.
ComputeMeanStd(coords, swaps, n_samples_per_tomo) ==
    LET samples == [k \in 1 .. Len(swaps) |->
                      << ((k - 1) \div n_samples_per_tomo) + 1,
                         CoordOf(coords, k - 1, n_samples_per_tomo),
                         IF swaps[k] THEN "odd" ELSE "even" >>]
    IN  [mean |-> <<"mean", samples>>, std |-> <<"std", samples>>]

----------------------------------------------------------------------------
\* The memory maps.  A handle is known by the object or call that opened it:
\* owner "setup" with role "split" (__compute_extraction_shapes__), a dataset
\* with role "coords" (__create_coords_for_tomo__) or "tomos" (the dataset's
\* tomos_odd / tomos_even).

Handle(owner, role, i) ==
    { [owner |-> owner, role |-> role, tomo |-> i, half |-> h] :
        h \in {"odd", "even"} }

\* Lines 36-37: the handles a dataset keeps.
TomoHandles(owner, n_tomos) ==
    UNION { Handle(owner, "tomos", i) : i \in 1..n_tomos }

----------------------------------------------------------------------------
\* CryoCARE_Dataset.__init__

\* Lines 107-113: the volumes whose sampling raises.
RaisingTomos(n_tomos, mask_path, n_samples_per_tomo, extraction_shapes, sample_shape, shape) ==
    { i \in 1..n_tomos :
        SamplingRaises(extraction_shapes[i][1], extraction_shapes[i][2],
                       mask_path, n_samples_per_tomo, sample_shape, shape) }

\* Lines 107-113: every array create_coordinate_lists can build.
CreateCoordinateLists(n_tomos, mask_path, n_samples_per_tomo, extraction_shapes, sample_shape, shape) ==
    LET per == [i \in 1..n_tomos |->
                  CreateRandomCoords(extraction_shapes[i][1],
                                     extraction_shapes[i][2], mask_path,
                                     n_samples_per_tomo, sample_shape, shape)]
    IN  { c \in [1..n_tomos -> UNION { per[i] : i \in 1..n_tomos }] :
            \A i \in 1..n_tomos : c[i] \in per[i] }

\* Line 44.
LengthOf(coords) ==
    LET RECURSIVE Sum(_)
        Sum(k) == IF k = 0 THEN 0 ELSE Len(coords[k]) + Sum(k - 1)
    IN  Sum(Len(coords))

\* Lines 51-52: the indices the constructor's compute_mean_std uses; none
\* when mean and std are given.
NormRun(mean, std, n_normalization_samples, n_samples_per_tomo, n_tomos) ==
    IF mean = NoValue \/ std = NoValue
    THEN NormIndices(n_normalization_samples, n_samples_per_tomo, n_tomos)
    ELSE << >>

\* The exception the constructor raises, or None: the assertions of lines
\* 131-132, the sampling of line 134, the __getitem__ calls of line 100.
ConstructError(n_tomos, mask_path, n_samples_per_tomo, extraction_shapes, mean, std, sample_shape, n_normalization_samples, shape) ==
    LET idxs == NormRun(mean, std, n_normalization_samples,
                        n_samples_per_tomo, n_tomos)
    IN  IF ~SizeAssertions(shape, sample_shape) THEN "AssertionError"
        ELSE IF RaisingTomos(n_tomos, mask_path, n_samples_per_tomo,
                             extraction_shapes, sample_shape, shape) # {}
        THEN "ValueError"
        ELSE IF idxs = << >> THEN None
        ELSE GetItemError(idxs[Len(idxs)], n_samples_per_tomo, n_tomos)

\* What the constructor's compute_mean_std did, for coords of the given
\* length: nothing when the constructor raised before reaching it.
NormTrace(error, length, idxs) ==
    IF error \in {"AssertionError", "ValueError"}
    THEN [length |-> 0, idxs |-> << >>]
    ELSE [length |-> length, idxs |-> idxs]

\* The handles open when the constructor ends: its own (lines 36-37) and,
\* when __create_coords_for_tomo__ raised on volume i before lines 139-140,
\* that call's two.
ConstructHandles(owner, n_tomos, mask_path, n_samples_per_tomo, extraction_shapes, sample_shape, shape, error) ==
    LET bad == RaisingTomos(n_tomos, mask_path, n_samples_per_tomo,
                            extraction_shapes, sample_shape, shape)
        i == IF error = "AssertionError" THEN 1
             ELSE CHOOSE k \in bad : \A j \in bad : k <= j
    IN  TomoHandles(owner, n_tomos)
          \cup (IF error \in {"AssertionError", "ValueError"}
                THEN Handle(owner, "coords", i) ELSE {})

\* The dataset a constructor call that does not raise leaves: coords is what
\* create_coordinate_lists built, swaps the coins of its compute_mean_std.
Dataset(owner, n_tomos, mask_path, n_samples_per_tomo, extraction_shapes, mean, std, sample_shape, shuffle, tilt_axis, coords, swaps) ==
    LET stats == IF mean = NoValue \/ std = NoValue
                 THEN ComputeMeanStd(coords, swaps, n_samples_per_tomo)
                 ELSE [mean |-> mean, std |-> std]
    IN  [owner |-> owner,
         tomo_paths_odd |-> Paths("odd", n_tomos),
         tomo_paths_even |-> Paths("even", n_tomos),
         mask_paths |-> [i \in 1..n_tomos |-> mask_path],
         n_samples_per_tomo |-> n_samples_per_tomo,
         tilt_axis |-> tilt_axis,
         extraction_shapes |-> extraction_shapes,
         mean |-> stats.mean,
         std |-> stats.std,
         sample_shape |-> sample_shape,
         shuffle |-> shuffle,
         coords |-> coords,
         n_tomos |-> n_tomos,
         length |-> LengthOf(coords)]

----------------------------------------------------------------------------
\* CryoCARE_Dataset.save / load

\* n_normalization_samples of a constructor call that does not pass it.
DefaultNormalizationSamples == 500

\* What np.load gives back for a value np.savez stored: always an ndarray.
NpArray(v) == [type |-> "ndarray", value |-> v]

\* Lines 55-65: the archive of one dataset.  mask_paths is not written.
SaveDataset(ds) ==
    [tomo_paths_odd |-> NpArray(ds.tomo_paths_odd),
     tomo_paths_even |-> NpArray(ds.tomo_paths_even),
     mean |-> NpArray(ds.mean),
     std |-> NpArray(ds.std),
     n_samples_per_tomo |-> NpArray(ds.n_samples_per_tomo),
     extraction_shapes |-> NpArray(ds.extraction_shapes),
     sample_shape |-> NpArray(ds.sample_shape),
     shuffle |-> NpArray(ds.shuffle),
     coords |-> NpArray(ds.coords),
     tilt_axis |-> NpArray(ds.tilt_axis)]

\* Lines 79-82: the tilt_axis load hands to the constructor.
LoadTiltAxis(item) == IF item.type = "ndarray" THEN None ELSE item.value

\* The coordinates of the dataset load would return without line 93.
LoadCoordsResampled(sampled, item) == sampled

\* Line 93: the coordinates of the dataset load returns, given the ones its
\* constructor sampled.
LoadCoords(sampled, item) == item.value

\* Lines 84-92: the exception of load's constructor call, or None; shape is
\* the shape of the volumes the persisted paths name.
LoadError(tmp, shape) ==
    ConstructError(Len(tmp.tomo_paths_odd.value), NoValue,
                   tmp.n_samples_per_tomo.value, tmp.extraction_shapes.value,
                   tmp.mean.value, tmp.std.value, tmp.sample_shape.value,
                   DefaultNormalizationSamples, shape)

\* Lines 84-92: the arrays load's constructor call can sample.
LoadLists(tmp, shape) ==
    CreateCoordinateLists(Len(tmp.tomo_paths_odd.value), NoValue,
                          tmp.n_samples_per_tomo.value,
                          tmp.extraction_shapes.value, tmp.sample_shape.value,
                          shape)

\* Lines 84-94: the dataset load returns when its constructor sampled
\* `sampled` and did not raise.
LoadDataset(owner, tmp, sampled, swaps) ==
    LET ds == Dataset(owner, Len(tmp.tomo_paths_odd.value), NoValue,
                      tmp.n_samples_per_tomo.value,
                      tmp.extraction_shapes.value, tmp.mean.value,
                      tmp.std.value, tmp.sample_shape.value,
                      tmp.shuffle.value, LoadTiltAxis(tmp.tilt_axis),
                      sampled, swaps)
    IN  [ds EXCEPT !.coords = LoadCoords(sampled, tmp.coords)]

\* The coins of the compute_mean_std run of load's constructor call.
LoadSwaps(tmp) ==
    [1 .. Len(NormRun(tmp.mean.value, tmp.std.value,
                      DefaultNormalizationSamples,
                      tmp.n_samples_per_tomo.value,
                      Len(tmp.tomo_paths_odd.value))) -> BOOLEAN]

----------------------------------------------------------------------------
\* The inputs: the arguments of setup and the volumes they name.

ValidationFractions == 0 .. VFDen

\* The numbers of volume pairs tried with n samples per volume.
TomoCounts(n) == { k \in 1..MaxLength : k * n <= MaxLength }

MaskPaths == {NoValue, <<0>>, <<1>>}

\* The arguments of setup for an in-plane shape, an in-plane footprint and n
\* samples per volume.
Inputs(shape, sample_shape, n) ==
    { [shape |-> shape \o <<d>>,
       sample_shape |-> sample_shape \o <<sd>>,
       tilt_axis |-> a,
       vf |-> f,
       n_samples_per_tomo |-> n,
       n_normalization_samples |-> m,
       n_tomos |-> t,
       mask_path |-> mk] :
        d \in Depths, sd \in FootprintDepths, a \in {"Y", "X"},
        f \in ValidationFractions, m \in 1..MaxNorm, t \in TomoCounts(n),
        mk \in MaskPaths }

NoNorm == [length |-> 0, idxs |-> << >>]

NoFiles == [saved |-> FALSE]

NoLoad == [err |-> None, train_dataset |-> NoDataset, val_dataset |-> NoDataset]

NoItem == [dataset |-> None]

Init ==
    /\ \E g \in Geometries, n \in 0..MaxLength : args \in Inputs(g[1], g[2], n)
    /\ pc = "setup"
    /\ err = None
    /\ train_extraction_shapes = << >>
    /\ val_extraction_shapes = << >>
    /\ train_dataset = NoDataset
    /\ val_dataset = NoDataset
    /\ norm_trace = NoNorm
    /\ files = NoFiles
    /\ loaded = NoLoad
    /\ handles = {}
    /\ last_item = NoItem

----------------------------------------------------------------------------
\* CryoCARE_DataModule.setup

\* Lines 220-225: one turn of the loop over the volume pairs.  The two memory
\* maps __compute_extraction_shapes__ opens are not closed.
ComputeExtractionShapesStep ==
    /\ pc = "setup"
    /\ Len(train_extraction_shapes) < args.n_tomos
    /\ LET i == Len(train_extraction_shapes) + 1
           es == ComputeExtractionShapes(args.shape,
                                         TiltAxisIndex(args.tilt_axis),
                                         args.sample_shape, args.vf)
       IN  /\ handles' = handles \cup Handle("setup", "split", i)
           /\ IF SizeAssertions(args.shape, args.sample_shape)
              THEN /\ train_extraction_shapes' = Append(train_extraction_shapes, es[1])
                   /\ val_extraction_shapes' = Append(val_extraction_shapes, es[2])
                   /\ UNCHANGED <<pc, err>>
              ELSE /\ pc' = "failed"
                   /\ err' = "AssertionError"
                   /\ UNCHANGED <<train_extraction_shapes, val_extraction_shapes>>
    /\ UNCHANGED <<args, train_dataset, val_dataset, norm_trace, files, loaded,
                   last_item>>

\* round(): the integer nearest to num / den, the even one of two.
RoundHalfEven(num, den) ==
    LET q == num \div den
        r == num % den
    IN  IF 2 * r < den THEN q
        ELSE IF 2 * r > den THEN q + 1
        ELSE IF q % 2 = 0 THEN q ELSE q + 1

\* The training count if line 232 rounded.
TrainSamplesRounded(n_samples_per_tomo, vf) ==
    RoundHalfEven(n_samples_per_tomo * (VFDen - vf), VFDen)

\* Lines 232-233 and 244: the per-volume sample counts.
TrainSamples(n_samples_per_tomo, vf) ==
    IntTrunc(n_samples_per_tomo * (VFDen - vf), VFDen)

ValSamples(n_samples_per_tomo, vf) == IntTrunc(n_samples_per_tomo * vf, VFDen)

\* Lines 227-237.
ConstructTrain ==
    /\ pc = "setup"
    /\ Len(train_extraction_shapes) = args.n_tomos
    /\ train_dataset = NoDataset
    /\ LET n == TrainSamples(args.n_samples_per_tomo, args.vf)
           lists == CreateCoordinateLists(args.n_tomos, args.mask_path, n,
                                          train_extraction_shapes,
                                          args.sample_shape, args.shape)
           idxs == NormRun(NoValue, NoValue, args.n_normalization_samples, n,
                           args.n_tomos)
           e == ConstructError(args.n_tomos, args.mask_path, n,
                               train_extraction_shapes, NoValue, NoValue,
                               args.sample_shape,
                               args.n_normalization_samples, args.shape)
       IN  /\ err' = e
           /\ pc' = IF e = None THEN "setup" ELSE "failed"
           /\ handles' = handles \cup
                ConstructHandles("train", args.n_tomos, args.mask_path, n,
                                 train_extraction_shapes, args.sample_shape,
                                 args.shape, e)
           /\ norm_trace' = NormTrace(e, LengthOf(CHOOSE c \in lists : TRUE),
                                      idxs)
           /\ IF e # None
              THEN train_dataset' = NoDataset
              ELSE \E c \in lists, swaps \in [1 .. Len(idxs) -> BOOLEAN] :
                     train_dataset' =
                       Dataset("train", args.n_tomos, args.mask_path, n,
                               train_extraction_shapes, NoValue, NoValue,
                               args.sample_shape, TRUE, args.tilt_axis, c,
                               swaps)
    /\ UNCHANGED <<args, train_extraction_shapes, val_extraction_shapes,
                   val_dataset, files, loaded, last_item>>

\* Lines 239-248.
ConstructVal ==
    /\ pc = "setup"
    /\ train_dataset # NoDataset
    /\ LET n == ValSamples(args.n_samples_per_tomo, args.vf)
           lists == CreateCoordinateLists(args.n_tomos, args.mask_path, n,
                                          val_extraction_shapes,
                                          args.sample_shape, args.shape)
           idxs == NormRun(train_dataset.mean, train_dataset.std,
                           DefaultNormalizationSamples, n, args.n_tomos)
           e == ConstructError(args.n_tomos, args.mask_path, n,
                               val_extraction_shapes, train_dataset.mean,
                               train_dataset.std, args.sample_shape,
                               DefaultNormalizationSamples, args.shape)
       IN  /\ err' = e
           /\ pc' = IF e = None THEN "ready" ELSE "failed"
           /\ handles' = handles \cup
                ConstructHandles("val", args.n_tomos, args.mask_path, n,
                                 val_extraction_shapes, args.sample_shape,
                                 args.shape, e)
           /\ IF e # None
              THEN val_dataset' = NoDataset
              ELSE \E c \in lists, swaps \in [1 .. Len(idxs) -> BOOLEAN] :
                     val_dataset' =
                       Dataset("val", args.n_tomos, args.mask_path, n,
                               val_extraction_shapes, train_dataset.mean,
                               train_dataset.std, args.sample_shape, FALSE,
                               None, c, swaps)
    /\ UNCHANGED <<args, train_extraction_shapes, val_extraction_shapes,
                   train_dataset, norm_trace, files, loaded, last_item>>

----------------------------------------------------------------------------
\* The data module after setup.

\* Lines 250-252.
Save ==
    /\ pc = "ready"
    /\ files = NoFiles
    /\ files' = [saved |-> TRUE,
                 train |-> SaveDataset(train_dataset),
                 val |-> SaveDataset(val_dataset)]
    /\ UNCHANGED <<args, pc, err, train_extraction_shapes,
                   val_extraction_shapes, train_dataset, val_dataset,
                   norm_trace, loaded, handles, last_item>>

\* The handles load's constructor call leaves open.
LoadHandles(owner, tmp, shape) ==
    ConstructHandles(owner, Len(tmp.tomo_paths_odd.value), NoValue,
                     tmp.n_samples_per_tomo.value, tmp.extraction_shapes.value,
                     tmp.sample_shape.value, shape, LoadError(tmp, shape))

\* Lines 68-94: the datasets load can return from one archive when its
\* constructor call does not raise.
LoadDatasets(owner, tmp, shape) ==
    { LoadDataset(owner, tmp, c, swaps) :
        c \in LoadLists(tmp, shape), swaps \in LoadSwaps(tmp) }

\* Lines 254-256, called on a second data module.
Load ==
    /\ files.saved
    /\ loaded = NoLoad
    /\ LET et == LoadError(files.train, args.shape)
           ev == LoadError(files.val, args.shape)
           ht == LoadHandles("loaded_train", files.train, args.shape)
           hv == LoadHandles("loaded_val", files.val, args.shape)
       IN  /\ handles' = handles \cup ht \cup (IF et = None THEN hv ELSE {})
           /\ IF et # None
              THEN loaded' = [NoLoad EXCEPT !.err = et]
              ELSE \E dt \in LoadDatasets("loaded_train", files.train, args.shape) :
                     IF ev # None
                     THEN loaded' = [err |-> ev, train_dataset |-> dt,
                                     val_dataset |-> NoDataset]
                     ELSE \E dv \in LoadDatasets("loaded_val", files.val,
                                                args.shape) :
                            loaded' = [err |-> None, train_dataset |-> dt,
                                       val_dataset |-> dv]
    /\ UNCHANGED <<args, pc, err, train_extraction_shapes,
                   val_extraction_shapes, train_dataset, val_dataset,
                   norm_trace, files, last_item>>

\* Lines 185-194 on one of the two datasets, for an index in [0, length).
GetItem ==
    /\ pc = "ready"
    /\ \E ds \in {train_dataset, val_dataset} :
       \E idx \in 0 .. ds.length - 1 :
          LET patch == PatchShape(CoordOf(ds.coords, idx, ds.n_samples_per_tomo),
                                  ds.sample_shape, args.shape)
          IN  last_item' = [dataset |-> ds.owner, idx |-> idx,
                            shapes |-> <<patch, patch>>]
    /\ UNCHANGED <<args, pc, err, train_extraction_shapes,
                   val_extraction_shapes, train_dataset, val_dataset,
                   norm_trace, files, loaded, handles>>

\* Lines 302-304 with 205-208.
Close ==
    /\ pc = "ready"
    /\ pc' = "closed"
    /\ handles' = handles \ (TomoHandles(train_dataset.owner, train_dataset.n_tomos)
                             \cup TomoHandles(val_dataset.owner, val_dataset.n_tomos))
    /\ UNCHANGED <<args, err, train_extraction_shapes, val_extraction_shapes,
                   train_dataset, val_dataset, norm_trace, files, loaded,
                   last_item>>

\* The handles no live object refers to: the locals of a call that returned
\* or raised, and the handles of a dataset whose constructor raised.
Live == { d.owner : d \in {train_dataset, val_dataset, loaded.train_dataset,
                           loaded.val_dataset} }

Unreferenced == { h \in handles : h.role # "tomos" \/ h.owner \notin Live }

\* mrcfile closes a memory map when its object is collected; when that
\* happens is up to the interpreter.
Finalize ==
    /\ Unreferenced # {}
    /\ handles' = handles \ Unreferenced
    /\ UNCHANGED <<args, pc, err, train_extraction_shapes,
                   val_extraction_shapes, train_dataset, val_dataset,
                   norm_trace, files, loaded, last_item>>

Next ==
    \/ ComputeExtractionShapesStep
    \/ ConstructTrain
    \/ ConstructVal
    \/ Save
    \/ Load
    \/ GetItem
    \/ Close
    \/ Finalize

Spec == Init /\ [][Next]_vars

\* setup alone.
NextSetup ==
    \/ ComputeExtractionShapesStep
    \/ ConstructTrain
    \/ ConstructVal

SpecSetup == Init /\ [][NextSetup]_vars

\* The split alone, on every in-plane shape up to MaxExtent and every
\* footprint up to half of it.
InitSplit ==
    /\ \E h \in 2..MaxExtent, w \in 2..MaxExtent :
       \E s0 \in 1..(h \div 2), s1 \in 1..(w \div 2) :
          /\ args \in Inputs(<<h, w>>, <<s0, s1>>, 0)
          /\ args.shape[3] = 1
          /\ args.sample_shape[3] = 1
          /\ args.n_normalization_samples = 1
          /\ args.mask_path = NoValue
    /\ pc = "setup"
    /\ err = None
    /\ train_extraction_shapes = << >>
    /\ val_extraction_shapes = << >>
    /\ train_dataset = NoDataset
    /\ val_dataset = NoDataset
    /\ norm_trace = NoNorm
    /\ files = NoFiles
    /\ loaded = NoLoad
    /\ handles = {}
    /\ last_item = NoItem

NextSplit == ComputeExtractionShapesStep

SpecSplit == InitSplit /\ [][NextSplit]_vars

\* setup and __getitem__.
NextGetItem ==
    \/ ComputeExtractionShapesStep
    \/ ConstructTrain
    \/ ConstructVal
    \/ GetItem

SpecGetItem == Init /\ [][NextGetItem]_vars

\* setup and close.
NextClose ==
    \/ ComputeExtractionShapesStep
    \/ ConstructTrain
    \/ ConstructVal
    \/ Close
    \/ Finalize

SpecClose == Init /\ [][NextClose]_vars

\* setup, save and load.
NextPersist ==
    \/ ComputeExtractionShapesStep
    \/ ConstructTrain
    \/ ConstructVal
    \/ Save
    \/ Load

\* save and load read neither the volumes' third axis nor sample_shape's
\* third extent: one value of each is tried.
InitPersist ==
    /\ Init
    /\ args.shape[3] = 1
    /\ args.sample_shape[3] = 1

SpecPersist == InitPersist /\ [][NextPersist]_vars

----------------------------------------------------------------------------
\* The extraction windows.

\* The indices of the half-open range [w[1], w[2]).
HalfOpen(w) == w[1] .. (w[2] - 1)

SplitAxis == TiltAxisIndex(args.tilt_axis) + 1

\* C2: for every volume setup has computed windows for, the training and the
\* validation window, read as half-open ranges along the split axis, do not
\* overlap and together are exactly [0, extent).
C2_WindowsPartitionSplitAxis ==
    \A i \in 1 .. Len(train_extraction_shapes) :
        LET t == HalfOpen(train_extraction_shapes[i][SplitAxis])
            v == HalfOpen(val_extraction_shapes[i][SplitAxis])
        IN  /\ t \cap v = {}
            /\ t \cup v = 0 .. (args.shape[SplitAxis] - 1)

\* The windows of every volume are computed, and the clamp moved the split
\* point: the unclamped one of validation_fraction 1 is -1.
C2_Witness ==
    /\ Len(train_extraction_shapes) = args.n_tomos
    /\ args.vf = VFDen
    /\ ValCutOffUnclamped(args.shape[SplitAxis], args.sample_shape[SplitAxis],
                           args.vf) = -1
    /\ train_extraction_shapes[1][SplitAxis][2] > 0

\* C3: both windows of every volume are, in each in-plane dimension,
\* strictly larger than the footprint in that dimension.
C3_WindowsExceedFootprint ==
    \A i \in 1 .. Len(train_extraction_shapes) :
    \A w \in {train_extraction_shapes[i], val_extraction_shapes[i]} :
    \A k \in 1..2 :
        w[k][2] - w[k][1] > args.sample_shape[k]

----------------------------------------------------------------------------
\* The sampled coordinates.

\* The datasets setup has constructed so far.
Built == {train_dataset, val_dataset} \ {NoDataset}

\* C1: every sampled coordinate (y, x) of every volume of every dataset keeps
\* the footprint __getitem__ reads inside that volume's window:
\* y + sample_shape[0] <= y1 and x + sample_shape[1] <= x1.
C1_FootprintInsideWindow ==
    \A ds \in Built :
    \A i \in 1 .. ds.n_tomos :
    \A j \in 1 .. Len(ds.coords[i]) :
        /\ ds.coords[i][j][1] + ds.sample_shape[1] <= ds.extraction_shapes[i][1][2]
        /\ ds.coords[i][j][2] + ds.sample_shape[2] <= ds.extraction_shapes[i][2][2]

\* The mask is false on every voxel of the sampler's region of the window,
\* and the region has voxels.
MaskAllFalse(ds, i) ==
    /\ ValidInds(ds.extraction_shapes[i][1], ds.extraction_shapes[i][2],
                 NoValue, ds.sample_shape, args.shape) # {}
    /\ ValidInds(ds.extraction_shapes[i][1], ds.extraction_shapes[i][2],
                 ds.mask_paths[i], ds.sample_shape, args.shape) = {}

\* C7: setup does not complete with a dataset one of whose volumes has a
\* mask that is all false over the sampler's region, and every volume of a
\* dataset it completes with holds exactly the requested number of
\* coordinates.
C7_AllFalseMaskFailsSetup ==
    pc = "ready" =>
        \A ds \in Built :
        \A i \in 1 .. ds.n_tomos :
            /\ ~MaskAllFalse(ds, i)
            /\ Len(ds.coords[i]) = ds.n_samples_per_tomo

----------------------------------------------------------------------------
\* The sample counts.

\* k = int(num / VFDen), said without the division.
IsTruncation(k, num) == k * VFDen <= num /\ num < (k + 1) * VFDen

\* C6 as amended: a dataset setup constructs has the per-volume sample count
\* int(n_samples_per_tomo * (1 - validation_fraction)) (training) or
\* int(n_samples_per_tomo * validation_fraction) (validation), that many
\* coordinates for each volume, and a length of that count times the number
\* of volumes.
C6_CountsTruncate ==
    \A ds \in Built :
        /\ IsTruncation(ds.n_samples_per_tomo,
                        IF ds.owner = "train"
                        THEN args.n_samples_per_tomo * (VFDen - args.vf)
                        ELSE args.n_samples_per_tomo * args.vf)
        /\ \A i \in 1 .. ds.n_tomos : Len(ds.coords[i]) = ds.n_samples_per_tomo
        /\ ds.length = ds.n_samples_per_tomo * args.n_tomos

\* setup completed on a training share that is not a whole number.
C6_Witness ==
    /\ pc = "ready"
    /\ (args.n_samples_per_tomo * (VFDen - args.vf)) % VFDen # 0
    /\ train_dataset.length > 0

\* C6 as stated: the counts are round(n_samples_per_tomo * (1 -
\* validation_fraction)) and round(n_samples_per_tomo * validation_fraction),
\* and the lengths those counts times the number of volumes.
C6_CountsRound ==
    \A ds \in Built :
        LET count == IF ds.owner = "train"
                     THEN RoundHalfEven(args.n_samples_per_tomo
                                          * (VFDen - args.vf), VFDen)
                     ELSE RoundHalfEven(args.n_samples_per_tomo * args.vf,
                                        VFDen)
        IN  /\ ds.n_samples_per_tomo = count
            /\ ds.length = count * args.n_tomos

----------------------------------------------------------------------------
\* The normalization statistics.

\* C10: when a dataset of length >= 1 is constructed without mean and std,
\* every index compute_mean_std hands to __getitem__ lies in [0, length), and
\* the construction does not raise on an index.
C10_NormIndicesInRange ==
    norm_trace.length >= 1 =>
        /\ \A k \in 1 .. Len(norm_trace.idxs) :
              norm_trace.idxs[k] \in 0 .. (norm_trace.length - 1)
        /\ err # "IndexError"

----------------------------------------------------------------------------
\* save and load.

\* The pairs <<saved dataset, dataset load returned for it>>.
Reloaded ==
    { p \in { <<train_dataset, loaded.train_dataset>>,
              <<val_dataset, loaded.val_dataset>> } : p[2] # NoDataset }

\* C4: a dataset load returns has the coordinates, mean, std and per-volume
\* sample count of the dataset that was saved, whatever its constructor
\* sampled during load.
C4_LoadRestoresSaved ==
    \A p \in Reloaded :
        /\ p[2].coords = p[1].coords
        /\ p[2].mean = p[1].mean
        /\ p[2].std = p[1].std
        /\ p[2].n_samples_per_tomo = p[1].n_samples_per_tomo

\* Both datasets were loaded, the training one was built with a mask and
\* holds coordinates, and load's constructor could sample other coordinates
\* than the saved ones.
C4_Witness ==
    /\ loaded.err = None
    /\ loaded.val_dataset # NoDataset
    /\ train_dataset.mask_paths[1] # NoValue
    /\ train_dataset.length > 0
    /\ \E c \in LoadLists(files.train, args.shape) : c # train_dataset.coords

\* C5: a dataset load returns has the tilt_axis of the dataset that was
\* saved.
C5_TiltAxisRoundTrips ==
    \A p \in Reloaded : p[2].tilt_axis = p[1].tilt_axis

----------------------------------------------------------------------------
\* __getitem__ and close.

\* C8: both patches __getitem__ returns have the shape sample_shape + (1,).
C8_PatchShapeIsFootprint ==
    last_item # NoItem =>
        \A k \in 1..2 : last_item.shapes[k] = args.sample_shape \o <<1>>

\* C9: once close has run after a successful setup, no memory map opened
\* during setup is open.
C9_NoHandleOpenAfterClose == pc = "closed" => handles = {}

====
